---- MODULE Spec2Model ----
(***************************************************************************)
(* Model of the QOI decoder of src/src/lib.rs: decode_qoi and the helpers  *)
(* it calls (read_8, read_32, QoiOp::from, QoiColor::hash, QoiColor::from).*)
(*                                                                         *)
(* One behaviour is one call of decode_qoi on one input buffer.  The call  *)
(* is deterministic once the buffer and the build profile are fixed, so    *)
(* all nondeterminism is in Init.  The build profile matters because the   *)
(* source uses the plain operators -, +, += and * on u8 values: rustc      *)
(* compiles them to wrapping arithmetic without overflow checks (release   *)
(* profile) and to a panic on overflow with them (dev profile).            *)
(***************************************************************************)
EXTENDS Integers, Sequences, FiniteSets, TLC

\* ------------------------------------------------------------ integer widths
U8 == 256

\* ------------------------------------------------------- program constants
QOI_MAGIC == 1903126886
QOI_PIXELS_MAX == 400000000
QOI_HEADER_SIZE == 14
QOI_END_SEGMENT_SIZE == 8

\* ------------------------------------------------------------------- bounds
\* Longest opcode stream of an input buffer, in chunks (see StreamChunks).
MaxOps == 3
\* Pixels of one image the model follows; a larger image is followed this far.
MaxPixels == 6

VARIABLES
    bytes,            \* the input buffer, bytes[o + 1] is the byte at offset o
    overflow_checks,  \* build profile: TRUE when u8 overflow panics
    pc,               \* position in decode_qoi
    panic_msg,        \* message of the panic that ended the call, "" if none
    index,            \* byte cursor
    header,           \* the parsed QoiHeader
    px_len,           \* length of the pixel buffer
    pixels,           \* bytes 0 .. px_pos-1 of the pixel buffer (the rest is
                      \* still the 0 it was allocated with)
    px_pos,           \* loop variable of the pixel loop
    prev_color,
    seen_colors,      \* the 64-slot colour cache
    run,
    chunks_len,
    reads,            \* history: every offset of bytes read so far
    op_log            \* history: one entry per opcode byte read

vars == <<bytes, overflow_checks, pc, panic_msg, index, header, px_len, pixels,
          px_pos, prev_color, seen_colors, run, chunks_len, reads, op_log>>

\* ---------------------------------------------------------------- messages
MsgTooSmall == "File too small to be a valid QOI image"
MsgNotValid == "Not a valid QOI image"
MsgOverflow == "arithmetic overflow"
MsgBounds == "index out of bounds"
MsgUnreachable == "Not a valid QoiOp."

\* ------------------------------------------------------------------ colours
Color(r, g, b, a) == [r |-> r, g |-> g, b |-> b, a |-> a]

\* Mutant: the bytes of the word taken from the low end.
QoiColorFrom_Reversed(color) ==
    Color(color % U8, (color \div 256) % U8,
          (color \div 65536) % U8, (color \div 16777216) % U8)

\* impl From<u32> for QoiColor
QoiColorFrom(color) ==
    Color((color \div 16777216) % U8, (color \div 65536) % U8,
          (color \div 256) % U8, color % U8)

\* The exact value of the expression of QoiColor::hash, before any wrap.
HashSum(c) == c.r * 3 + c.g * 5 + c.b * 7 + c.a * 11

\* Mutant: the alpha term is left out of the hash.
hash_NoAlpha(c) == (c.r * 3 + c.g * 5 + c.b * 7) % U8

\* QoiColor::hash without overflow checks: every u8 product and sum wraps.
hash(c) == HashSum(c) % U8

\* QoiColor::hash with overflow checks panics as soon as a product or a
\* partial sum leaves u8; all terms are >= 0, so that is when the sum does.
hash_overflows(c) == HashSum(c) >= U8

\* ---------------------------------------------------------- u8 arithmetic
\* a - b and a + b on u8: the wrapped value and whether the operation
\* overflowed (a panic when the build checks overflow).
SubU8(a, b) == [v |-> (a - b) % U8, ovf |-> a - b < 0]
AddU8(a, b) == [v |-> (a + b) % U8, ovf |-> a + b >= U8]

\* ------------------------------------------------------------------ opcodes
\* b & 0xc0
TopBits(b) == (b \div 64) * 64

\* Mutant: the top bits are tested before the two 8-bit tags.
QoiOpFrom_RunFirst(b) ==
    IF TopBits(b) = 192 THEN [tag |-> "Run", runs |-> b % 64, ovf |-> FALSE]
    ELSE IF TopBits(b) = 0 THEN [tag |-> "Index", index |-> b, ovf |-> FALSE]
    ELSE IF TopBits(b) = 64 THEN
        LET dr == SubU8((b \div 16) % 4, 2)
            dg == SubU8((b \div 4) % 4, 2)
            db == SubU8(b % 4, 2)
        IN  [tag |-> "Diff", r |-> dr.v, g |-> dg.v, b |-> db.v,
             ovf |-> dr.ovf \/ dg.ovf \/ db.ovf]
    ELSE LET vg == SubU8(b % 64, 32)
         IN  [tag |-> "Luma", vg |-> vg.v, ovf |-> vg.ovf]

\* impl From<u8> for QoiOp.  The fields of Diff and Luma are computed here,
\* with plain u8 subtraction.
QoiOpFrom(b) ==
    IF b = 254 THEN [tag |-> "Rgb", ovf |-> FALSE]
    ELSE IF b = 255 THEN [tag |-> "Rgba", ovf |-> FALSE]
    ELSE IF TopBits(b) = 0 THEN [tag |-> "Index", index |-> b, ovf |-> FALSE]
    ELSE IF TopBits(b) = 64 THEN
        LET dr == SubU8((b \div 16) % 4, 2)
            dg == SubU8((b \div 4) % 4, 2)
            db == SubU8(b % 4, 2)
        IN  [tag |-> "Diff", r |-> dr.v, g |-> dg.v, b |-> db.v,
             ovf |-> dr.ovf \/ dg.ovf \/ db.ovf]
    ELSE IF TopBits(b) = 128 THEN
        LET vg == SubU8(b % 64, 32)
        IN  [tag |-> "Luma", vg |-> vg.v, ovf |-> vg.ovf]
    ELSE IF TopBits(b) = 192 THEN [tag |-> "Run", runs |-> b % 64, ovf |-> FALSE]
    ELSE [tag |-> "Unknown", ovf |-> FALSE]

\* Bytes that follow the opcode byte and are read by its match arm.
OperandCount(op) ==
    CASE op.tag = "Rgb" -> 3
      [] op.tag = "Rgba" -> 4
      [] op.tag = "Luma" -> 1
      [] OTHER -> 0


\* Mutant: the RGB opcode makes the pixel opaque.
ApplyOp_RgbOpaque(op, d, prev, cache) ==
    CASE op.tag = "Rgb" ->
            [color |-> Color(d[1], d[2], d[3], 255), ovf |-> FALSE]
      [] op.tag = "Rgba" ->
            [color |-> Color(d[1], d[2], d[3], d[4]), ovf |-> FALSE]
      [] op.tag = "Index" ->
            [color |-> cache[op.index], ovf |-> FALSE]
      [] op.tag = "Diff" ->
            LET r == AddU8(prev.r, op.r)
                g == AddU8(prev.g, op.g)
                b == AddU8(prev.b, op.b)
            IN  [color |-> Color(r.v, g.v, b.v, prev.a),
                 ovf |-> r.ovf \/ g.ovf \/ b.ovf]
      [] op.tag = "Luma" ->
            LET b2 == d[1]
                r1 == SubU8(op.vg, 8)
                r2 == AddU8(r1.v, (b2 \div 16) % 16)
                r == AddU8(prev.r, r2.v)
                g == AddU8(prev.g, op.vg)
                b1 == SubU8(op.vg, 8)
                b3 == AddU8(b1.v, b2 % 16)
                b == AddU8(prev.b, b3.v)
            IN  [color |-> Color(r.v, g.v, b.v, prev.a),
                 ovf |-> r1.ovf \/ r2.ovf \/ r.ovf \/ g.ovf
                         \/ b1.ovf \/ b3.ovf \/ b.ovf]
      [] OTHER ->
            [color |-> prev, ovf |-> FALSE]

\* The colour an opcode resolves to, from the opcode, its operand bytes d
\* (d[1] is the byte after the opcode), the previous colour and the cache:
\* the match arms of decode_qoi.  ovf: a u8 operation overflowed on the way.
ApplyOp(op, d, prev, cache) ==
    CASE op.tag = "Rgb" ->
            [color |-> Color(d[1], d[2], d[3], prev.a), ovf |-> FALSE]
      [] op.tag = "Rgba" ->
            [color |-> Color(d[1], d[2], d[3], d[4]), ovf |-> FALSE]
      [] op.tag = "Index" ->
            [color |-> cache[op.index], ovf |-> FALSE]
      [] op.tag = "Diff" ->
            LET r == AddU8(prev.r, op.r)
                g == AddU8(prev.g, op.g)
                b == AddU8(prev.b, op.b)
            IN  [color |-> Color(r.v, g.v, b.v, prev.a),
                 ovf |-> r.ovf \/ g.ovf \/ b.ovf]
      [] op.tag = "Luma" ->
            LET b2 == d[1]
                r1 == SubU8(op.vg, 8)
                r2 == AddU8(r1.v, (b2 \div 16) % 16)
                r == AddU8(prev.r, r2.v)
                g == AddU8(prev.g, op.vg)
                b1 == SubU8(op.vg, 8)
                b3 == AddU8(b1.v, b2 % 16)
                b == AddU8(prev.b, b3.v)
            IN  [color |-> Color(r.v, g.v, b.v, prev.a),
                 ovf |-> r1.ovf \/ r2.ovf \/ r.ovf \/ g.ovf
                         \/ b1.ovf \/ b3.ovf \/ b.ovf]
      [] OTHER ->
            [color |-> prev, ovf |-> FALSE]

\* Mutant: the run count taken as the number of pixels after this one, plus one.
RunAfter_Extra(op, old) == IF op.tag = "Run" THEN op.runs + 1 ELSE old

\* The pending run after an opcode: only the Run arm assigns it.
RunAfter(op, old) == IF op.tag = "Run" THEN op.runs ELSE old

\* seen_colors[prev_color.hash() % 64] = prev_color
CacheSlot(c) == hash(c) % 64
\* Mutant: the resolved colour is not stored.
CacheStore_Skip(cache, c) == cache

CacheStore(cache, c) == [cache EXCEPT ![CacheSlot(c)] = c]

\* Mutant: the alpha of the colour is written whatever the channel count.
EmitPixel_Alpha(c, channels) == <<c.r, c.g, c.b, c.a>>

\* The four bytes written for one pixel; the pixel buffer is always RGBA.
EmitPixel(c, channels) == <<c.r, c.g, c.b, IF channels = 4 THEN c.a ELSE 255>>

\* ------------------------------------------------------------------- reads
\* read_8 and read_32 index the slice; an offset past its end panics.
read_8(buf, offset) == buf[offset + 1]
read_32(buf, offset) ==
    buf[offset + 1] * 16777216 + buf[offset + 2] * 65536
        + buf[offset + 3] * 256 + buf[offset + 4]

\* ------------------------------------------------------------------ header
QoiHeader(magic, width, height, channels, colorspace) ==
    [magic |-> magic, width |-> width, height |-> height,
     channels |-> channels, colorspace |-> colorspace]

\* Mutants of the header check: the pixel bound compared with > for >=, and
\* the magic comparison left out.
HeaderInvalid_Gt(h) ==
    \/ h.width = 0
    \/ h.height = 0
    \/ h.channels < 3
    \/ h.channels > 4
    \/ h.colorspace > 1
    \/ h.magic /= QOI_MAGIC
    \/ h.height > QOI_PIXELS_MAX \div h.width

HeaderInvalid_NoMagic(h) ==
    \/ h.width = 0
    \/ h.height = 0
    \/ h.channels < 3
    \/ h.channels > 4
    \/ h.colorspace > 1
    \/ h.height >= QOI_PIXELS_MAX \div h.width

\* Mutant: the pixel bound is one too large.
HeaderInvalid_Max1(h) ==
    \/ h.width = 0
    \/ h.height = 0
    \/ h.channels < 3
    \/ h.channels > 4
    \/ h.colorspace > 1
    \/ h.magic /= QOI_MAGIC
    \/ h.height >= (QOI_PIXELS_MAX + 1) \div h.width

\* The condition of the header check; true when decode_qoi panics.
HeaderInvalid(h) ==
    \/ h.width = 0
    \/ h.height = 0
    \/ h.channels < 3
    \/ h.channels > 4
    \/ h.colorspace > 1
    \/ h.magic /= QOI_MAGIC
    \/ h.height >= QOI_PIXELS_MAX \div h.width

\* (header.width * header.height * 4) as usize.  The product is a u32; for
\* a header that passed the check it is below 1600000000 and wraps nowhere.
PxLen(h) == h.width * h.height * 4

\* ------------------------------------------------------------------ inputs
EndMarker == <<0, 0, 0, 0, 0, 0, 0, 1>>

EncodeBE32(v) ==
    <<(v \div 16777216) % 256, (v \div 65536) % 256, (v \div 256) % 256, v % 256>>

HeaderBytes(m, w, h, c, cs) ==
    EncodeBE32(m) \o EncodeBE32(w) \o EncodeBE32(h) \o <<c, cs>>

\* Opcodes with their operands, and a lone RGB opcode byte whose operands
\* are whatever follows it.
StreamChunks ==
    { <<254, 200, 100, 50>>,   \* RGB
      <<255, 1, 2, 3, 4>>,     \* RGBA
      <<14>>,                  \* INDEX 14, the slot of (1,2,3,4)
      <<0>>,                   \* INDEX 0
      <<64>>,                  \* DIFF -2,-2,-2
      <<127>>,                 \* DIFF +1,+1,+1
      <<168, 17>>,             \* LUMA vg = 8, r and b +1
      <<128, 0>>,              \* LUMA vg = -32, r and b -40
      <<159, 136>>,            \* LUMA vg = -1, r and b -1
      <<194>>,                 \* RUN 2
      <<254>> }                \* RGB, operands not supplied

RECURSIVE Streams(_)
Streams(n) ==
    IF n = 0 THEN {<<>>}
    ELSE LET shorter == Streams(n - 1)
         IN  shorter \cup {s \o c : s \in shorter, c \in StreamChunks}

\* The u32 fields of the inputs stay below 2^31, the integers TLC computes with.
Widths == {0, 1, 2, 3, 20000, 400000000, 400000001, 2147483647}
Heights == {0, 1, 2, 3, 19999, 20000, 133333332, 133333333,
            199999999, 200000000, 399999999, 400000000}

\* A 3x2 image with every opcode stream of at most MaxOps chunks.
StreamBuffers ==
    {HeaderBytes(QOI_MAGIC, 3, 2, c, 0) \o s \o EndMarker :
        c \in {3, 4}, s \in Streams(MaxOps)}

\* Every header of the field values above, good and bad, before one stream.
HeaderBuffers ==
    {HeaderBytes(m, w, h, c, cs) \o <<254, 200, 100, 50, 193>> \o EndMarker :
        m \in {QOI_MAGIC, QOI_MAGIC + 1}, w \in Widths, h \in Heights,
        c \in 2..5, cs \in 0..2}

\* Every proper prefix of one well-formed file: too short for a header,
\* too short for an end marker, cut inside the stream.
WholeFile == HeaderBytes(QOI_MAGIC, 2, 1, 4, 0) \o <<255, 1, 2, 3, 4>> \o EndMarker
TruncatedBuffers == {SubSeq(WholeFile, 1, n) : n \in 0..(Len(WholeFile) - 1)}

\* A 3x2 image whose stream is one byte, for every value of the byte.
OpcodeBuffers ==
    {HeaderBytes(QOI_MAGIC, 3, 2, 4, 0) \o <<b>> \o EndMarker : b \in 0..255}

InputBuffers ==
    StreamBuffers \cup HeaderBuffers \cup TruncatedBuffers \cup OpcodeBuffers

\* -------------------------------------------------------------------- Init
Init ==
    /\ bytes \in InputBuffers
    /\ overflow_checks \in BOOLEAN
    /\ pc = "start"
    /\ panic_msg = ""
    /\ index = 0
    /\ header = QoiHeader(0, 0, 0, 0, 0)
    /\ px_len = 0
    /\ pixels = <<>>
    /\ px_pos = 0
    /\ prev_color = Color(0, 0, 0, 0)
    /\ seen_colors = [i \in 0..63 |-> Color(0, 0, 0, 0)]
    /\ run = 0
    /\ chunks_len = 0
    /\ reads = {}
    /\ op_log = <<>>

\* Mutant: the size check is off by one.
TooSmall_OffByOne(size) == size < QOI_HEADER_SIZE - 1

\* if size < QOI_HEADER_SIZE
TooSmall(size) == size < QOI_HEADER_SIZE

\* Mutant: the end segment is not kept back, the cursor runs to the end.
CanReadOp_NoEnd(idx, clen) == idx < clen + QOI_END_SEGMENT_SIZE

\* Mutant: the cursor may reach the first byte of the end segment.
CanReadOp_Le(idx, clen) == idx <= clen

\* else if index < chunks_len
CanReadOp(idx, clen) == idx < clen

\* panic!(msg): the call ends, nothing else changes.
Panic(msg) ==
    /\ pc' = "panic"
    /\ panic_msg' = msg

\* ----------------------------------------------------------------- actions
\* lib.rs 152-155
CheckSize ==
    /\ pc = "start"
    /\ IF TooSmall(Len(bytes))
          THEN Panic(MsgTooSmall)
          ELSE pc' = "header" /\ UNCHANGED panic_msg
    /\ UNCHANGED <<bytes, overflow_checks, index, header, px_len, pixels, px_pos,
                   prev_color, seen_colors, run, chunks_len, reads, op_log>>

\* lib.rs 157-164
ReadHeader ==
    /\ pc = "header"
    /\ IF Len(bytes) < 14
          THEN /\ Panic(MsgBounds)
               /\ reads' = reads \cup (0..(Len(bytes) - 1))
               /\ UNCHANGED <<header, index>>
          ELSE /\ header' = QoiHeader(read_32(bytes, 0), read_32(bytes, 4),
                                      read_32(bytes, 8), read_8(bytes, 12),
                                      read_8(bytes, 13))
               /\ index' = index + 4 + 4 + 4 + 1 + 1
               /\ reads' = reads \cup (0..13)
               /\ pc' = "check"
               /\ UNCHANGED panic_msg
    /\ UNCHANGED <<bytes, overflow_checks, px_len, pixels, px_pos,
                   prev_color, seen_colors, run, chunks_len, op_log>>

\* lib.rs 166-184: the header check, then the set-up of the pixel loop
CheckHeader ==
    /\ pc = "check"
    /\ IF HeaderInvalid(header)
          THEN /\ Panic(MsgNotValid)
               /\ UNCHANGED <<px_len, prev_color, seen_colors, run, chunks_len>>
          ELSE /\ pc' = "loop"
               /\ px_len' = PxLen(header)
               /\ prev_color' = QoiColorFrom(255)
               /\ seen_colors' = [i \in 0..63 |-> QoiColorFrom(255)]
               /\ run' = 0
               /\ chunks_len' = Len(bytes) - QOI_END_SEGMENT_SIZE
               /\ UNCHANGED panic_msg
    /\ UNCHANGED <<bytes, overflow_checks, index, header, pixels, px_pos,
                   reads, op_log>>

\* The pixel loop runs while px_pos < px_len; the model follows an image
\* for its first MaxPixels pixels.
InLoop ==
    /\ pc = "loop"
    /\ px_pos < px_len
    /\ px_pos \div 4 < MaxPixels

\* lib.rs 228-235, and the step of the for loop
WritePixel(c) ==
    /\ pixels' = pixels \o EmitPixel(c, header.channels)
    /\ px_pos' = px_pos + 4

\* Mutant: a pixel of a run consumes a byte of the stream.
PixelRun_Consume ==
    /\ InLoop
    /\ run > 0
    /\ run' = run - 1
    /\ index' = index + 1
    /\ WritePixel(prev_color)
    /\ UNCHANGED <<bytes, overflow_checks, pc, panic_msg, header, px_len,
                   prev_color, seen_colors, chunks_len, reads, op_log>>

\* lib.rs 186-187, 228-235: a pixel of a pending run
PixelRun ==
    /\ InLoop
    /\ run > 0
    /\ run' = run - 1
    /\ WritePixel(prev_color)
    /\ UNCHANGED <<bytes, overflow_checks, pc, panic_msg, index, header, px_len,
                   prev_color, seen_colors, chunks_len, reads, op_log>>

\* Why the iteration that reads opcode op at offset idx panics, "" if it
\* does not: unreachable!(), an overflow in QoiOp::from, an operand past the
\* end of the slice, an overflow in the match arm or in hash().
OpPanic(op, idx, res) ==
    IF op.tag = "Unknown" THEN MsgUnreachable
    ELSE IF overflow_checks /\ op.ovf THEN MsgOverflow
    ELSE IF idx + OperandCount(op) >= Len(bytes) THEN MsgBounds
    ELSE IF overflow_checks /\ (res.ovf \/ hash_overflows(res.color))
         THEN MsgOverflow
    ELSE ""

\* The operand offsets the iteration reads before it ends or panics.
OperandReads(op, idx) ==
    IF op.tag = "Unknown" \/ (overflow_checks /\ op.ovf) THEN {}
    ELSE {o \in (idx + 1)..(idx + OperandCount(op)) : o < Len(bytes)}

\* lib.rs 188-226, 228-235: a pixel resolved by reading an opcode
PixelOpcode ==
    /\ InLoop
    /\ run = 0
    /\ CanReadOp(index, chunks_len)
    /\ LET b1 == read_8(bytes, index)
           op == QoiOpFrom(b1)
           d == [k \in 1..OperandCount(op) |-> read_8(bytes, index + k)]
           res == ApplyOp(op, d, prev_color, seen_colors)
           msg == OpPanic(op, index, res)
           got == OperandReads(op, index)
       IN  /\ reads' = reads \cup {index} \cup got
           /\ index' = index + 1 + Cardinality(got)
           /\ IF msg /= ""
                 THEN /\ Panic(msg)
                      /\ op_log' = Append(op_log,
                            [pixel |-> px_pos \div 4, offset |-> index,
                             b1 |-> b1, tag |-> op.tag, ok |-> FALSE,
                             before |-> prev_color, after |-> prev_color,
                             slot |-> -1])
                      /\ UNCHANGED <<prev_color, run, seen_colors, pixels, px_pos>>
                 ELSE /\ prev_color' = res.color
                      /\ run' = RunAfter(op, run)
                      /\ seen_colors' = CacheStore(seen_colors, res.color)
                      /\ WritePixel(res.color)
                      /\ op_log' = Append(op_log,
                            [pixel |-> px_pos \div 4, offset |-> index,
                             b1 |-> b1, tag |-> op.tag, ok |-> TRUE,
                             before |-> prev_color, after |-> res.color,
                             slot |-> CacheSlot(res.color)])
                      /\ UNCHANGED <<pc, panic_msg>>
    /\ UNCHANGED <<bytes, overflow_checks, header, px_len, chunks_len>>

\* Mutant: the loop is left when the stream is exhausted.
PixelTail_Break ==
    /\ InLoop
    /\ run = 0
    /\ ~CanReadOp(index, chunks_len)
    /\ pc' = "done"
    /\ UNCHANGED <<bytes, overflow_checks, panic_msg, index, header, px_len,
                   pixels, px_pos, prev_color, seen_colors, run, chunks_len,
                   reads, op_log>>

\* lib.rs 186-188, 228-235: no run is pending and the cursor is at the end
\* segment, so neither branch is taken and prev_color is written again
PixelTail ==
    /\ InLoop
    /\ run = 0
    /\ ~CanReadOp(index, chunks_len)
    /\ WritePixel(prev_color)
    /\ UNCHANGED <<bytes, overflow_checks, pc, panic_msg, index, header, px_len,
                   prev_color, seen_colors, run, chunks_len, reads, op_log>>

\* lib.rs 185, 238: the loop ends and the pixel buffer is handed to
\* ImageData (web_sys, outside the repository), whose result is returned
Finish ==
    /\ pc = "loop"
    /\ px_pos >= px_len
    /\ pc' = "done"
    /\ UNCHANGED <<bytes, overflow_checks, panic_msg, index, header, px_len,
                   pixels, px_pos, prev_color, seen_colors, run, chunks_len,
                   reads, op_log>>

Next ==
    \/ CheckSize
    \/ ReadHeader
    \/ CheckHeader
    \/ PixelRun
    \/ PixelOpcode
    \/ PixelTail
    \/ Finish

Spec == Init /\ [][Next]_vars


\* ===================================================================
\* Properties
\* ===================================================================

\* The header fields as the file format lays them out (big-endian), taken
\* from the buffer itself.
FileMagic == bytes[1] * 16777216 + bytes[2] * 65536 + bytes[3] * 256 + bytes[4]
FileWidth == bytes[5] * 16777216 + bytes[6] * 65536 + bytes[7] * 256 + bytes[8]
FileHeight == bytes[9] * 16777216 + bytes[10] * 65536 + bytes[11] * 256 + bytes[12]
FileChannels == bytes[13]
FileColorspace == bytes[14]

\* The validity predicate as the specification words it.
FileHeaderValid ==
    /\ FileMagic = 1903126886          \* "qoif"
    /\ FileWidth /= 0
    /\ FileHeight /= 0
    /\ FileChannels \in {3, 4}
    /\ FileColorspace \in {0, 1}
    /\ FileHeight < 400000000 \div FileWidth

\* The header check has been passed or failed.
HeaderDecided == pc \notin {"start", "header", "check"}

\* Pixel decoding was entered (it may have ended, or panicked on an opcode).
InPixelStage == pc \in {"loop", "done"} \/ (pc = "panic" /\ op_log /= <<>>)

\* Pixels written so far, the bytes of pixel k, and the pixels of the image.
NPixels == Len(pixels) \div 4
PixelAt(k) == SubSeq(pixels, 4 * k + 1, 4 * k + 4)
TotalPixels == px_len \div 4

\* The colour pixel k resolved to: that of the last opcode read at or before
\* pixel k, the start colour when there is none.
ResolvedColor(k) ==
    LET es == {i \in 1..Len(op_log) : op_log[i].ok /\ op_log[i].pixel <= k}
    IN  IF es = {} THEN Color(0, 0, 0, 255)
        ELSE op_log[CHOOSE i \in es : \A j \in es : j <= i].after

\* C1: for a buffer of at least 14 bytes, decode_qoi enters pixel decoding
\* exactly when the big-endian header has magic "qoif", width /= 0,
\* height /= 0, channels 3 or 4, colorspace 0 or 1 and
\* height < 400000000 div width; otherwise it panics having read no byte
\* past the header and written no pixel.
C1_HeaderGate ==
    (Len(bytes) >= 14 /\ HeaderDecided) =>
        /\ InPixelStage <=> FileHeaderValid
        /\ ~FileHeaderValid =>
              /\ pc = "panic"
              /\ reads = 0..13
              /\ op_log = <<>>
              /\ pixels = <<>>
              /\ px_len = 0

\* C1 witness: a header on the accepting side of the pixel bound
\* (20000 x 19999) is in the pixel loop.
C1_Witness ==
    /\ pc = "loop"
    /\ FileWidth = 20000
    /\ FileHeight = 19999

\* C2 as stated: the pixel buffer has width * height * channels bytes and
\* pixel k occupies channels bytes, with no alpha byte when channels = 3.
C2_Original ==
    pc \in {"loop", "done"} =>
        /\ px_len = header.width * header.height * header.channels
        /\ \A k \in 0..(NPixels - 1) :
              Len(pixels) >= (k + 1) * header.channels

\* C2 amended: the pixel buffer has width * height * 4 bytes whatever the
\* channel count; pixel k occupies bytes 4k .. 4k+3 as r, g, b and a fourth
\* byte that is the colour's a when channels = 4 and 255 when channels = 3;
\* on return every pixel has been written.
C2_RgbaLayout ==
    pc \in {"loop", "done"} =>
        /\ px_len = FileWidth * FileHeight * 4
        /\ Len(pixels) = px_pos
        /\ px_pos <= px_len
        /\ pc = "done" => Len(pixels) = px_len
        /\ \A k \in 0..(NPixels - 1) :
              LET c == ResolvedColor(k)
              IN  /\ pixels[4 * k + 1] = c.r
                  /\ pixels[4 * k + 2] = c.g
                  /\ pixels[4 * k + 3] = c.b
                  /\ pixels[4 * k + 4] = IF FileChannels = 4 THEN c.a ELSE 255

\* C2 witness: a 3-channel image was decoded to the end and one of its
\* colours has an alpha other than 255.
C2_Witness ==
    /\ pc = "done"
    /\ FileChannels = 3
    /\ Len(pixels) = 24
    /\ \E k \in 0..(NPixels - 1) : ResolvedColor(k).a /= 255

\* The check of the header that failed first, in the order of the error
\* taxonomy of the specification.
NamedHeaderError ==
    IF FileMagic /= 1903126886 THEN "BadMagic"
    ELSE IF FileWidth = 0 \/ FileHeight = 0 THEN "BadDimensions"
    ELSE IF FileChannels \notin {3, 4} THEN "BadChannels"
    ELSE IF FileColorspace \notin {0, 1} THEN "BadColorspace"
    ELSE "BadDimensions"

\* C3 as stated: a rejected header fails with the named error of the failed
\* check (BadMagic, BadDimensions, BadChannels, BadColorspace).
C3_Original ==
    (Len(bytes) >= 14 /\ HeaderDecided /\ ~FileHeaderValid) =>
        /\ pc = "panic"
        /\ panic_msg = NamedHeaderError

\* C3 amended: a rejected header of a buffer of at least 14 bytes fails with
\* one and the same error, "Not a valid QOI image", whichever check failed.
C3_SingleError ==
    (Len(bytes) >= 14 /\ HeaderDecided /\ ~FileHeaderValid) =>
        /\ pc = "panic"
        /\ panic_msg = "Not a valid QOI image"

\* C3 witness: a header whose only fault is its magic has been rejected.
C3_Witness ==
    /\ pc = "panic"
    /\ Len(bytes) >= 14
    /\ FileMagic /= 1903126886
    /\ FileWidth = 1 /\ FileHeight = 1 /\ FileChannels = 4 /\ FileColorspace = 0

\* C4: a buffer of fewer than 14 bytes fails with "File too small to be a
\* valid QOI image", an error no other failure carries, before any byte of
\* the buffer is read and before any pixel work.
C4_TooShort ==
    /\ (Len(bytes) < 14 /\ pc /= "start") =>
          /\ pc = "panic"
          /\ panic_msg = "File too small to be a valid QOI image"
          /\ reads = {}
          /\ index = 0
          /\ px_len = 0 /\ pixels = <<>> /\ op_log = <<>>
    /\ (pc = "panic" /\ Len(bytes) >= 14) =>
          panic_msg /= "File too small to be a valid QOI image"

\* C4 witness: a 13-byte buffer has been refused.
C4_Witness ==
    /\ pc = "panic"
    /\ Len(bytes) = 13


\* The four output bytes of colour c in this file's image.
Shown(c) == <<c.r, c.g, c.b, IF FileChannels = 4 THEN c.a ELSE 255>>

\* C5: a RUN opcode with 6-bit field c read at pixel p, with at least c+1
\* pixels left, makes each of the pixels p .. p+c that is written equal to
\* the colour resolved before it; only that one byte is consumed for them
\* (the cursor stays one past the opcode and the pending run counts the
\* pixels still owed), and the next opcode byte is read at pixel p+c+1,
\* unless the cursor is at the end segment by then.
C5_RunLength ==
    \A i \in 1..Len(op_log) :
        LET e == op_log[i]
            c == e.b1 - 192
            p == e.pixel
        IN  (e.b1 \in 192..253 /\ e.ok /\ p + c + 1 <= TotalPixels) =>
              /\ \A q \in p..(p + c) :
                    q < NPixels => PixelAt(q) = Shown(ResolvedColor(p - 1))
              /\ (i = Len(op_log) /\ NPixels <= p + c + 1) =>
                    /\ index = e.offset + 1
                    /\ run = p + c + 1 - NPixels
              /\ i < Len(op_log) =>
                    /\ op_log[i + 1].pixel = p + c + 1
                    /\ op_log[i + 1].offset = e.offset + 1
              /\ (i = Len(op_log) /\ NPixels > p + c + 1) =>
                    e.offset + 1 >= Len(bytes) - 8

\* C5 witness: RUN 2 was read after a colour-setting opcode, and the next
\* opcode was read three pixels later.
C5_Witness ==
    \E i \in 1..Len(op_log) :
        /\ op_log[i].b1 = 194
        /\ op_log[i].ok
        /\ op_log[i].pixel > 0
        /\ i < Len(op_log)
        /\ op_log[i + 1].pixel = op_log[i].pixel + 3
        /\ NPixels > op_log[i].pixel + 3

\* The colour last stored in cache slot s by the first n opcodes read, the
\* start value of the slot when none stored there.
LastStored(s, n) ==
    LET ws == {j \in 1..n : op_log[j].ok /\ op_log[j].slot = s}
    IN  IF ws = {} THEN Color(0, 0, 0, 255)
        ELSE op_log[CHOOSE j \in ws : \A k \in ws : k <= j].after

\* C6: an INDEX opcode with slot i makes the pixel's colour, all four
\* channels, the colour last stored in cache[i] by an earlier opcode of this
\* call, the slot's start value when none was; and each slot of the cache
\* holds what was stored in it last.
C6_IndexLookup ==
    /\ \A i \in 1..Len(op_log) :
          LET e == op_log[i]
          IN  (e.b1 \in 0..63 /\ e.ok) =>
                /\ e.after = LastStored(e.b1, i - 1)
                /\ PixelAt(e.pixel) = Shown(LastStored(e.b1, i - 1))
    /\ pc \in {"loop", "done"} =>
          \A s \in 0..63 : seen_colors[s] = LastStored(s, Len(op_log))

\* C6 witness: INDEX 14 was read after two other opcodes, one of which
\* stored (1,2,3,4) in slot 14, and gave that colour back.
C6_Witness ==
    /\ Len(op_log) = 3
    /\ op_log[3].b1 = 14
    /\ op_log[3].ok
    /\ op_log[3].after = Color(1, 2, 3, 4)
    /\ op_log[3].before /= Color(1, 2, 3, 4)
    /\ PixelAt(op_log[3].pixel) = Shown(Color(1, 2, 3, 4))

\* What DIFF byte b makes of colour c, modulo 256.
DiffOf(b, c) ==
    Color((c.r + ((b \div 16) % 4) - 2) % 256,
          (c.g + ((b \div 4) % 4) - 2) % 256,
          (c.b + (b % 4) - 2) % 256,
          c.a)

\* C7: a DIFF opcode adds (field - 2) to each of r, g and b modulo 256 and
\* never fails.  (Stated for the DIFF opcodes whose result the cache hash
\* can take without leaving u8, so that a failure is DIFF's own.)
C7_DiffWraps ==
    \A i \in 1..Len(op_log) :
        LET e == op_log[i]
            want == DiffOf(e.b1, ResolvedColor(e.pixel - 1))
        IN  (e.b1 \in 64..127 /\ HashSum(want) < 256) =>
              /\ e.ok
              /\ e.after = want
              /\ PixelAt(e.pixel) = Shown(want)

\* A pixel is due, no run is pending and the cursor is at the end segment.
TailState ==
    /\ pc = "loop"
    /\ px_pos < px_len
    /\ run = 0
    /\ index >= Len(bytes) - 8

\* C8 (step): from such a state the decode reads no byte, does not fail,
\* and writes the last resolved colour as the next pixel.
C8_TailStep ==
    TailState =>
        /\ pc' \in {"loop", "done"}
        /\ index' = index
        /\ reads' = reads
        /\ op_log' = op_log
        /\ pixels' = pixels \o Shown(ResolvedColor(NPixels))

\* C8 (result): a decode that returns has written the whole pixel buffer,
\* and a decode past its stream is never stuck: it writes the next pixel
\* (within the pixels the model follows) or, the last one written, returns.
C8_FullBuffer ==
    /\ pc = "done" => (Len(pixels) = px_len /\ panic_msg = "")
    /\ (TailState /\ NPixels < MaxPixels) => ENABLED PixelTail
    /\ (pc = "loop" /\ px_pos >= px_len) => ENABLED Finish

\* C8: when the cursor is at or past the end segment and no run is pending
\* before all pixels are produced, no further byte is read, the decode does
\* not fail, every remaining pixel is the last resolved colour, and the
\* decode goes on to return a full buffer.
C8_TailPadding == [][C8_TailStep]_vars /\ []C8_FullBuffer

\* C8 witness: a 6-pixel image whose stream is one RGB opcode was decoded to
\* the end: five pixels were produced after the stream ran out.
C8_Witness ==
    /\ pc = "done"
    /\ NPixels = 6
    /\ Len(op_log) = 1
    /\ op_log[1].b1 = 254
    /\ PixelAt(5) = <<200, 100, 50, 255>>

\* C9: every byte dispatched on as an opcode is read at an offset in
\* 14 .. length - 9: none of the final 8 bytes is taken as an opcode.
C9_OpcodeOffsets ==
    \A i \in 1..Len(op_log) :
        /\ op_log[i].offset >= 14
        /\ op_log[i].offset <= Len(bytes) - 9

\* C9 witness: an opcode was read at the last offset before the end
\* segment, and its operands came from the end segment.
C9_Witness ==
    \E i \in 1..Len(op_log) :
        /\ op_log[i].offset = Len(bytes) - 9
        /\ op_log[i].b1 = 254
        /\ op_log[i].ok
        /\ Len(bytes) - 8 \in reads


\* Operand bytes that follow opcode byte b, by the format.
OperandsOf(b) ==
    IF b = 254 THEN 3
    ELSE IF b = 255 THEN 4
    ELSE IF b \in 128..191 THEN 1
    ELSE 0

\* C11: every byte read in the pixel stage, opcode or operand, is at an
\* offset below the buffer length: each opcode read has all its operands
\* inside the buffer and no read panics for being out of range.
C11_ReadsInBounds ==
    /\ \A o \in reads : o >= 0 /\ o < Len(bytes)
    /\ \A i \in 1..Len(op_log) :
          op_log[i].offset + OperandsOf(op_log[i].b1) < Len(bytes)
    /\ panic_msg /= "index out of bounds"
    /\ \A i \in 1..Len(op_log) :
          op_log[i].ok =>
              \A k \in 0..OperandsOf(op_log[i].b1) : op_log[i].offset + k \in reads

\* C11 witness: an RGB opcode at the last offset before the end segment has
\* read its three operands from the end segment.
C11_Witness ==
    /\ op_log /= <<>>
    /\ op_log[Len(op_log)].b1 = 254
    /\ op_log[Len(op_log)].offset = Len(bytes) - 9
    /\ Len(bytes) - 6 \in reads
    /\ pc = "loop"

\* C12 (step): the iteration that reads an opcode and writes its pixel
\* stores the resolved colour in slot h mod 64 of the cache, with
\* h = (r*3 + g*5 + b*7 + a*11) mod 256, and changes no other slot.
C12_CacheStep ==
    (Len(op_log') > Len(op_log) /\ pc' = "loop") =>
        LET c == prev_color'
            h == (c.r * 3 + c.g * 5 + c.b * 7 + c.a * 11) % 256
        IN  /\ pixels' = pixels \o Shown(c)
            /\ seen_colors'[h % 64] = c
            /\ \A s \in 0..63 : s /= h % 64 => seen_colors'[s] = seen_colors[s]

C13_FrameStep ==
    /\ (pc = "loop" /\ px_pos < px_len /\ run > 0) =>
          /\ run' = run - 1
          /\ index' = index
          /\ prev_color' = prev_color
          /\ seen_colors' = seen_colors
          /\ reads' = reads
    /\ TailState =>
          /\ run' = run
          /\ index' = index
          /\ prev_color' = prev_color
          /\ seen_colors' = seen_colors

\* C13: run-continuation pixels and pixels after the end of the stream
\* change nothing but run (the former) and the pixel buffer.
C13_Frame == [][C13_FrameStep]_vars

\* C13 witness: the first of the two pixels owed by a RUN 2 was written.
C13_Witness ==
    /\ op_log /= <<>>
    /\ op_log[Len(op_log)].b1 = 194
    /\ op_log[Len(op_log)].ok
    /\ NPixels = op_log[Len(op_log)].pixel + 2
    /\ run = 1
    /\ index = op_log[Len(op_log)].offset + 1


\* What LUMA bytes b1, b2 make of colour c, modulo 256.
LumaOf(b1, b2, c) ==
    LET vg == (b1 % 64) - 32
    IN  Color((c.r + vg - 8 + ((b2 \div 16) % 16)) % 256,
              (c.g + vg) % 256,
              (c.b + vg - 8 + (b2 % 16)) % 256,
              c.a)

\* C14: a LUMA opcode b1, b2 sets g := g + vg, r := r + vg - 8 + (b2 >> 4),
\* b := b + vg - 8 + (b2 & 15) modulo 256 with vg = (b1 & 63) - 32, consumes
\* two bytes and never fails.  (Stated for the LUMA opcodes whose result the
\* cache hash can take without leaving u8, so that a failure is LUMA's own.)
C14_LumaWraps ==
    \A i \in 1..Len(op_log) :
        LET e == op_log[i]
            want == LumaOf(e.b1, bytes[e.offset + 2], ResolvedColor(e.pixel - 1))
        IN  (e.b1 \in 128..191 /\ HashSum(want) < 256) =>
              /\ e.ok
              /\ e.after = want
              /\ PixelAt(e.pixel) = Shown(want)
              /\ i < Len(op_log) => op_log[i + 1].offset = e.offset + 2
              /\ i = Len(op_log) => index = e.offset + 2

\* C15: when pixel decoding starts every one of the 64 cache slots holds
\* (0,0,0,0), so an INDEX opcode of a slot that no opcode has stored in yet
\* makes the pixel's colour (0,0,0,0).
C15_ZeroCache ==
    /\ (pc = "loop" /\ px_pos = 0 /\ op_log = <<>>) =>
          \A s \in 0..63 : seen_colors[s] = Color(0, 0, 0, 0)
    /\ \A i \in 1..Len(op_log) :
          LET e == op_log[i]
          IN  (/\ e.b1 \in 0..63
               /\ e.ok
               /\ \A j \in 1..(i - 1) : ~(op_log[j].ok /\ op_log[j].slot = e.b1)) =>
                 e.after = Color(0, 0, 0, 0)

\* The alpha the opcodes read up to pixel k leave: that of the last RGBA or
\* INDEX opcode among them, 255 when there is none.
AlphaAt(k) ==
    LET es == {i \in 1..Len(op_log) :
                  /\ op_log[i].ok
                  /\ op_log[i].pixel <= k
                  /\ op_log[i].b1 \in (0..63) \cup {255}}
    IN  IF es = {} THEN 255
        ELSE op_log[CHOOSE i \in es : \A j \in es : j <= i].after.a

\* C16: RGB, DIFF, LUMA and RUN opcodes leave alpha as it was; only RGBA and
\* INDEX change it.  So the alpha of every pixel, run and padding pixels
\* included, is that of the last RGBA or INDEX opcode before it, and 255 in a
\* stream that has neither.
C16_AlphaKept ==
    /\ \A i \in 1..Len(op_log) :
          LET e == op_log[i]
          IN  (e.ok /\ e.b1 \notin (0..63) \cup {255}) => e.after.a = e.before.a
    /\ pc \in {"loop", "done"} => prev_color.a = AlphaAt(NPixels)
    /\ \A k \in 0..(NPixels - 1) :
          PixelAt(k)[4] = IF FileChannels = 4 THEN AlphaAt(k) ELSE 255

\* C16 witness: RGBA (1,2,3,4) then RGB (200,100,50) in a 4-channel file; the
\* second pixel keeps alpha 4.
C16_Witness ==
    /\ Len(op_log) = 2
    /\ op_log[1].b1 = 255
    /\ op_log[2].b1 = 254
    /\ op_log[2].ok
    /\ FileChannels = 4
    /\ PixelAt(1) = <<200, 100, 50, 4>>
    /\ prev_color.a = 4

\* The opcode patterns of the format that byte b matches.
Patterns(b) ==
    {t \in {"Rgb", "Rgba", "Index", "Diff", "Luma", "Run"} :
        \/ t = "Rgb" /\ b = 254
        \/ t = "Rgba" /\ b = 255
        \/ t = "Index" /\ b \div 64 = 0
        \/ t = "Diff" /\ b \div 64 = 1
        \/ t = "Luma" /\ b \div 64 = 2
        \/ t = "Run" /\ b \div 64 = 3 /\ b \notin {254, 255}}

\* C17: every byte value matches exactly one of RGB (0xFE), RGBA (0xFF),
\* INDEX (top bits 00), DIFF (01), LUMA (10), RUN (11, not 0xFE/0xFF), and
\* every opcode byte a decode reads is classified as that one; no decode
\* takes the Unknown branch, and a pending run is always in 0..61.
C17_Classification ==
    /\ \A i \in 1..Len(op_log) :
          /\ Cardinality(Patterns(op_log[i].b1)) = 1
          /\ op_log[i].tag \in Patterns(op_log[i].b1)
          /\ op_log[i].tag = "Run" => op_log[i].b1 % 64 \in 0..61
    /\ panic_msg /= MsgUnreachable
    /\ run \in 0..61

\* C17 witness: the byte 0xFD was read as a RUN and left 61 pixels pending.
C17_Witness ==
    /\ Len(op_log) = 1
    /\ op_log[1].b1 = 253
    /\ op_log[1].tag = "Run"
    /\ op_log[1].ok
    /\ run = 61

\* C18: a header that passes the check has width * height < 400000000
\* (written as height <= 399999999 div width, the same for positive
\* integers), so px_len = width * height * 4 is the exact product, below
\* 1600000000 and so below 2^32; and a header with width = 0 is rejected
\* with the header error, the division by width not being evaluated.
C18_PixelBound ==
    /\ (Len(bytes) >= 14 /\ InPixelStage) =>
          /\ FileWidth > 0
          /\ FileHeight <= 399999999 \div FileWidth
          /\ px_len <= 1599999996
          /\ px_len % 4 = 0
          /\ (px_len \div 4) % FileWidth = 0
          /\ (px_len \div 4) \div FileWidth = FileHeight
    /\ (Len(bytes) >= 14 /\ HeaderDecided /\ FileWidth = 0) =>
          /\ pc = "panic"
          /\ panic_msg = MsgNotValid
          /\ px_len = 0

\* C18 witness: the largest accepted image of width 2, 2 x 199999999, is in
\* the pixel loop with a buffer of 1599999992 bytes.
C18_Witness ==
    /\ pc = "loop"
    /\ FileWidth = 2
    /\ FileHeight = 199999999
    /\ px_len = 1599999992

\* C19: pixel decoding starts with prev_color = (0,0,0,255), run = 0 and
\* the cursor at 14; so for an accepted header in a buffer of at most 22
\* bytes no opcode byte is read and every pixel written, all width * height
\* of them when the decode returns, is (0,0,0) with alpha 255.
C19_StartState ==
    /\ (pc = "loop" /\ pixels = <<>> /\ op_log = <<>>) =>
          /\ prev_color = Color(0, 0, 0, 255)
          /\ run = 0
          /\ index = 14
    /\ (Len(bytes) \in 14..22 /\ InPixelStage) =>
          /\ op_log = <<>>
          /\ reads = 0..13
          /\ pc /= "panic"
          /\ \A k \in 0..(NPixels - 1) : PixelAt(k) = <<0, 0, 0, 255>>
          /\ pc = "done" => NPixels = FileWidth * FileHeight

\* C19 witness: a 22-byte buffer with a 2x1 header was decoded to two
\* opaque black pixels.
C19_Witness ==
    /\ Len(bytes) = 22
    /\ pc = "done"
    /\ op_log = <<>>
    /\ pixels = <<0, 0, 0, 255, 0, 0, 0, 255>>

====
